---- MODULE Spec2Model ----
\* entt::Delegate<Ret(Args...)> of src/entt/signal/delegate.hpp, modelled for
\* the signature int(int).
\*
\* A delegate is the pair stub = (context pointer, trampoline pointer).  The
\* model holds two delegate objects and two instances of a class Counter, the
\* free functions and member functions a caller can bind, and the operations
\* of the class: construction, the two connect overloads, reset, empty,
\* operator(), operator== and operator!=, and the implicit destructor.
\* Calling through a null trampoline pointer and calling a member function on
\* a destroyed instance are undefined behaviour: the model chooses
\* nondeterministically between the process being killed and the call
\* returning an arbitrary value.
EXTENDS Integers, Sequences, FiniteSets, TLC

\* ------------------------------------------------------------------ bounds
\* Arguments passed to an invocation are 0..MaxArg.
MaxArg == 2
\* The counter of an instance stays within 0..MaxCount.
MaxCount == 2

\* ------------------------------------------------------- the caller's world
Delegates == {"d1", "d2"}
Instances == {"c1", "c2"}
Args == 0..MaxArg

\* Free functions of signature int(int) a caller binds with connect<Function>().
FreeFunctions == {"square", "twice"}
\* Member functions of Counter a caller binds with connect<Member>(instance).
MemberFunctions == {"increment", "scaled"}

\* f(a) for a free function f.
FreeCall(f, a) ==
    IF f = "square" THEN a * a ELSE a + a

\* (obj->*m)(a) for an instance whose counter is c: the value returned and
\* the counter the call leaves behind.
MemberCall(m, c, a) ==
    IF m = "increment"
    THEN [ret |-> c + a, value |-> c + a]
    ELSE [ret |-> c * a, value |-> c]

\* ------------------------------------------------------------- Delegate
\* The null pointer stored in stub.first.
nullptr == "nullptr"
\* The null proto_fn_type *, proto_fn_type{} converted to a pointer.
NullFn == [class |-> "null", fn |-> "null"]
\* &proto<Function>: the address of the instantiation for a free function.
ProtoFunction(Function) == [class |-> "void", fn |-> Function]
\* &proto<Class, Member>: the address of the instantiation for a member.
ProtoMember(Member) == [class |-> "Counter", fn |-> Member]

\* std::is_member_function_pointer_v<decltype(Function)>
IsMemberFunctionPointer(t) == t.class = "Counter"

\* stub_type stub{}: both pointers value-initialised.
DefaultStub == [first |-> nullptr, second |-> NullFn]

\* The call record one target leaves in the log of an invocation.
CallRec(fn, inst) == [fn |-> fn, inst |-> inst]

\* A trampoline that calls the member on one fixed instance, whatever context
\* it is handed.
ProtoIgnoringInstance(t, instance, a, cnt) ==
    IF IsMemberFunctionPointer(t)
    THEN LET r == MemberCall(t.fn, cnt["c1"], a)
         IN  [ret |-> r.ret, counter |-> [cnt EXCEPT !["c1"] = r.value],
              calls |-> <<CallRec(t.fn, "c1")>>]
    ELSE [ret |-> FreeCall(t.fn, a), counter |-> cnt,
          calls |-> <<CallRec(t.fn, nullptr)>>]

\* A trampoline whose free-function branch always calls square.
ProtoWrongFunction(t, instance, a, cnt) ==
    IF IsMemberFunctionPointer(t)
    THEN LET r == MemberCall(t.fn, cnt[instance], a)
         IN  [ret |-> r.ret, counter |-> [cnt EXCEPT ![instance] = r.value],
              calls |-> <<CallRec(t.fn, instance)>>]
    ELSE [ret |-> FreeCall("square", a), counter |-> cnt,
          calls |-> <<CallRec("square", nullptr)>>]

\* proto<Class, Function>(instance, args...): what the trampoline t does with
\* the context it is handed, on the counters cnt.
proto(t, instance, a, cnt) ==
    IF IsMemberFunctionPointer(t)
    THEN LET r == MemberCall(t.fn, cnt[instance], a)
         IN  [ret |-> r.ret, counter |-> [cnt EXCEPT ![instance] = r.value],
              calls |-> <<CallRec(t.fn, instance)>>]
    ELSE [ret |-> FreeCall(t.fn, a), counter |-> cnt,
          calls |-> <<CallRec(t.fn, nullptr)>>]

\* An empty() that tests stub.first instead of stub.second.
emptyTestsFirst(s) == s.first = nullptr

\* empty(): !stub.second
empty(s) == ~(s.second # NullFn)

\* A connect that overwrites the trampoline and leaves the context.
connectFunctionKeepsContext(s, Function) ==
    [first |-> s.first, second |-> ProtoFunction(Function)]

\* connect<Function>(): stub = std::make_pair(nullptr, &proto<Function>)
connectFunction(s, Function) ==
    [first |-> nullptr, second |-> ProtoFunction(Function)]

\* connect<Member>(instance): stub = std::make_pair(instance, &proto<Class, Member>)
connectMember(s, Member, instance) ==
    [first |-> instance, second |-> ProtoMember(Member)]

\* reset(): stub.second = proto_fn_type{}; stub.first is left as it was.
reset(s) == [s EXCEPT !.second = NullFn]

\* operator(): stub.second(stub.first, args...)
call(s, a, cnt) == proto(s.second, s.first, a, cnt)

\* An operator== that compares the trampolines alone.
equalsSecondOnly(s, o) == s.second = o.second

\* An operator== that joins the two comparisons with || instead of &&.
equalsEither(s, o) == s.first = o.first \/ s.second = o.second

\* operator==: stub.first == other.stub.first && stub.second == other.stub.second
equals(s, o) == s.first = o.first /\ s.second = o.second

\* operator!=: !(lhs == rhs)
notEquals(l, r) == ~equals(l, r)

\* ------------------------------------------------------------------ state
VARIABLES
    stub,      \* stub of each delegate object: [first, second]
    alive,     \* whether the delegate object is constructed
    counter,   \* the state of each Counter instance
    live,      \* whether the instance still exists
    hist,      \* history: the most recent connect/reset applied to each delegate
    lastOp,    \* the operation that ran last, its operands and what it gave back
    crashed    \* the process was killed

vars == <<stub, alive, counter, live, hist, lastOp, crashed>>

\* A value for the fields of a record that an operation does not use.
NoInt == -1

Never == [op |-> "none", fn |-> "-", inst |-> "-"]
WasReset == [op |-> "reset", fn |-> "-", inst |-> "-"]
BoundFunction(f) == [op |-> "function", fn |-> f, inst |-> "-"]
BoundMember(m, i) == [op |-> "member", fn |-> m, inst |-> i]

Op(kind, d) ==
    [kind |-> kind, d |-> d, other |-> "-", arg |-> NoInt, prev |-> "-",
     res |-> FALSE, ne |-> FALSE, ret |-> NoInt, calls |-> <<>>, outcome |-> "-"]

Init ==
    /\ stub = [d \in Delegates |-> DefaultStub]
    /\ alive = [d \in Delegates |-> TRUE]
    /\ counter = [i \in Instances |-> 0]
    /\ live = [i \in Instances |-> TRUE]
    /\ hist = [d \in Delegates |-> Never]
    /\ lastOp = Op("init", "-")
    /\ crashed = FALSE

\* Delegate d{}: the object comes to life with stub{}.
Construct(d) ==
    /\ ~crashed /\ ~alive[d]
    /\ alive' = [alive EXCEPT ![d] = TRUE]
    /\ stub' = [stub EXCEPT ![d] = DefaultStub]
    /\ hist' = [hist EXCEPT ![d] = Never]
    /\ lastOp' = Op("construct", d)
    /\ UNCHANGED <<counter, live, crashed>>

\* A destructor that owns the context and deletes the instance it points to.
DestroyFreesInstance(d) ==
    /\ ~crashed /\ alive[d]
    /\ alive' = [alive EXCEPT ![d] = FALSE]
    /\ live' = [i \in Instances |-> live[i] /\ stub[d].first # i]
    /\ lastOp' = Op("destroy", d)
    /\ UNCHANGED <<stub, counter, hist, crashed>>

\* ~Delegate(): implicit and trivial, nothing is released.
Destroy(d) ==
    /\ ~crashed /\ alive[d]
    /\ alive' = [alive EXCEPT ![d] = FALSE]
    /\ lastOp' = Op("destroy", d)
    /\ UNCHANGED <<stub, counter, live, hist, crashed>>

\* d.connect<f>()
ConnectFunction(d, f) ==
    /\ ~crashed /\ alive[d]
    /\ stub' = [stub EXCEPT ![d] = connectFunction(stub[d], f)]
    /\ hist' = [hist EXCEPT ![d] = BoundFunction(f)]
    /\ lastOp' = [Op("connect", d) EXCEPT !.prev = hist[d].op]
    /\ UNCHANGED <<alive, counter, live, crashed>>

\* d.connect<m>(&i), i a valid instance
ConnectMember(d, m, i) ==
    /\ ~crashed /\ alive[d] /\ live[i]
    /\ stub' = [stub EXCEPT ![d] = connectMember(stub[d], m, i)]
    /\ hist' = [hist EXCEPT ![d] = BoundMember(m, i)]
    /\ lastOp' = [Op("connect", d) EXCEPT !.prev = hist[d].op]
    /\ UNCHANGED <<alive, counter, live, crashed>>

\* d.reset()
Reset(d) ==
    /\ ~crashed /\ alive[d]
    /\ stub' = [stub EXCEPT ![d] = reset(stub[d])]
    /\ hist' = [hist EXCEPT ![d] = WasReset]
    /\ lastOp' = Op("reset", d)
    /\ UNCHANGED <<alive, counter, live, crashed>>

\* d.empty()
Empty(d) ==
    /\ ~crashed /\ alive[d]
    /\ lastOp' = [Op("empty", d) EXCEPT !.res = empty(stub[d])]
    /\ UNCHANGED <<stub, alive, counter, live, hist, crashed>>

\* d == o and d != o
Compare(d, o) ==
    /\ ~crashed /\ alive[d] /\ alive[o]
    /\ lastOp' = [Op("compare", d) EXCEPT !.other = o,
                                          !.res = equals(stub[d], stub[o]),
                                          !.ne = notEquals(stub[d], stub[o])]
    /\ UNCHANGED <<stub, alive, counter, live, hist, crashed>>

\* The call stub.second(stub.first, a) has undefined behaviour: stub.second is
\* null, or the trampoline dereferences an instance that no longer exists.
Undefined(s) ==
    \/ s.second = NullFn
    \/ IsMemberFunctionPointer(s.second) /\ ~live[s.first]

\* d(a)
Invoke(d, a) ==
    /\ ~crashed /\ alive[d]
    /\ IF Undefined(stub[d])
       THEN \/ /\ crashed' = TRUE
               /\ lastOp' = [Op("invoke", d) EXCEPT !.arg = a, !.outcome = "crash"]
               /\ UNCHANGED counter
            \/ \E r \in Args :
                  /\ lastOp' = [Op("invoke", d) EXCEPT !.arg = a, !.ret = r,
                                                       !.outcome = "garbage"]
                  /\ UNCHANGED <<counter, crashed>>
       ELSE LET r == call(stub[d], a, counter)
            IN  /\ \A i \in Instances : r.counter[i] <= MaxCount
                /\ counter' = r.counter
                /\ lastOp' = [Op("invoke", d) EXCEPT !.arg = a, !.ret = r.ret,
                                                     !.calls = r.calls,
                                                     !.outcome = "returned"]
                /\ UNCHANGED crashed
    /\ UNCHANGED <<stub, alive, live, hist>>

\* The caller destroys instance i; delegates bound to it are left dangling.
DestroyInstance(i) ==
    /\ ~crashed /\ live[i]
    /\ live' = [live EXCEPT ![i] = FALSE]
    /\ lastOp' = Op("destroy_instance", i)
    /\ UNCHANGED <<stub, alive, counter, hist, crashed>>

Next ==
    \/ \E d \in Delegates : Construct(d)
    \/ \E d \in Delegates : Destroy(d)
    \/ \E d \in Delegates, f \in FreeFunctions : ConnectFunction(d, f)
    \/ \E d \in Delegates, m \in MemberFunctions, i \in Instances : ConnectMember(d, m, i)
    \/ \E d \in Delegates : Reset(d)
    \/ \E d \in Delegates : Empty(d)
    \/ \E d \in Delegates, o \in Delegates : Compare(d, o)
    \/ \E d \in Delegates, a \in Args : Invoke(d, a)
    \/ \E i \in Instances : DestroyInstance(i)

Spec == Init /\ [][Next]_vars

\* ----------------------------------------------------------------- claims
IsEmptyHist(h) == h.op \in {"none", "reset"}
IsBoundHist(h) == h.op \in {"function", "member"}

\* C1: empty() is true exactly when the delegate was never connected or the
\* most recent connect/reset applied to it was a reset.
C1_EmptyIffNeverBoundOrReset ==
    /\ \A d \in Delegates : alive[d] => (empty(stub[d]) <=> IsEmptyHist(hist[d]))
    /\ lastOp.kind = "empty" => (lastOp.res <=> IsEmptyHist(hist[lastOp.d]))

\* empty() answered true on a delegate reset after a member binding, while
\* the other delegate, connected again after a reset, is not empty.
C1_Witness ==
    /\ lastOp.kind = "empty" /\ lastOp.res
    /\ hist[lastOp.d].op = "reset" /\ stub[lastOp.d].first # nullptr
    /\ \E o \in Delegates : alive[o] /\ IsBoundHist(hist[o]) /\ ~empty(stub[o])

\* C2: a delegate whose most recent binding is connect<f>() returns f(a),
\* calls f once and nothing else, and hands no instance to it.
C2_FreeFunctionInvocation ==
    (lastOp.kind = "invoke" /\ hist[lastOp.d].op = "function") =>
        /\ lastOp.outcome = "returned"
        /\ lastOp.ret = FreeCall(hist[lastOp.d].fn, lastOp.arg)
        /\ lastOp.calls = <<CallRec(hist[lastOp.d].fn, nullptr)>>

\* twice(2) = 4 came back from a delegate whose context, were it consulted,
\* could have named an instance with a count of its own.
C2_Witness ==
    /\ lastOp.kind = "invoke" /\ hist[lastOp.d] = BoundFunction("twice")
    /\ lastOp.outcome = "returned" /\ lastOp.arg = 2 /\ lastOp.ret = 4
    /\ \E i \in Instances : live[i] /\ counter[i] > 0

\* C3: a delegate whose most recent binding is connect<m>(obj), obj valid,
\* returns (obj->*m)(a), leaves obj as the member call leaves it and touches
\* no other instance.
C3_MemberInvocation ==
    [][(lastOp'.kind = "invoke" /\ hist[lastOp'.d].op = "member"
            /\ live[hist[lastOp'.d].inst]) =>
        LET h == hist[lastOp'.d]
            r == MemberCall(h.fn, counter[h.inst], lastOp'.arg)
        IN  /\ lastOp'.outcome = "returned"
            /\ lastOp'.ret = r.ret
            /\ lastOp'.calls = <<CallRec(h.fn, h.inst)>>
            /\ counter' = [counter EXCEPT ![h.inst] = r.value]]_vars

\* increment ran on c2 through a delegate while c1 holds another count.
C3_Witness ==
    /\ lastOp.kind = "invoke" /\ hist[lastOp.d] = BoundMember("increment", "c2")
    /\ lastOp.outcome = "returned" /\ lastOp.arg = 1
    /\ counter["c2"] = 2 /\ counter["c1"] = 1 /\ live["c1"]

\* What a default-constructed delegate looks like after the connect that
\* history h records.
Fresh(h) ==
    IF h.op = "function"
    THEN connectFunction(DefaultStub, h.fn)
    ELSE connectMember(DefaultStub, h.fn, h.inst)

\* C4: after a connect, whatever preceded it, the delegate is the same as a
\* default-constructed delegate connected to the same target: same stub, same
\* empty(), equal under ==, same invocation results and effects; a free
\* function binding holds no instance.
C4_ConnectReplacesBinding ==
    lastOp.kind = "connect" =>
        LET s == stub[lastOp.d]
            f == Fresh(hist[lastOp.d])
        IN  /\ s = f
            /\ empty(s) = empty(f)
            /\ equals(s, f) /\ equals(f, s)
            /\ hist[lastOp.d].op = "function" => s.first = nullptr
            /\ \A a \in Args :
                  ~Undefined(f) => call(s, a, counter) = call(f, a, counter)

\* A free function was connected over a member binding, with no reset.
C4_Witness ==
    /\ lastOp.kind = "connect" /\ lastOp.prev = "member"
    /\ hist[lastOp.d].op = "function"

\* C5: two bound delegates compare equal exactly when their most recent
\* bindings name the same target and the same instance.
C5_BoundEqualIffSameListener ==
    /\ \A d, o \in Delegates :
          (alive[d] /\ alive[o] /\ IsBoundHist(hist[d]) /\ IsBoundHist(hist[o])) =>
              (equals(stub[d], stub[o]) <=> hist[d] = hist[o])
    /\ (lastOp.kind = "compare" /\ IsBoundHist(hist[lastOp.d])
            /\ IsBoundHist(hist[lastOp.other])) =>
          (lastOp.res <=> hist[lastOp.d] = hist[lastOp.other])

\* The same member function on two instances was compared and found unequal.
C5_Witness ==
    /\ lastOp.kind = "compare" /\ ~lastOp.res
    /\ hist[lastOp.d].op = "member" /\ hist[lastOp.other].op = "member"
    /\ hist[lastOp.d].fn = hist[lastOp.other].fn
    /\ hist[lastOp.d].inst # hist[lastOp.other].inst

\* C6: == is true exactly when both the contexts and the trampolines of the
\* operands are equal, != is its negation, and == is reflexive and symmetric.
C6_EqualsComparesBothFields ==
    /\ lastOp.kind = "compare" =>
          /\ lastOp.res <=> (/\ stub[lastOp.d].first = stub[lastOp.other].first
                             /\ stub[lastOp.d].second = stub[lastOp.other].second)
          /\ lastOp.ne <=> ~lastOp.res
    /\ \A d, o \in Delegates :
          /\ equals(stub[d], stub[d])
          /\ equals(stub[d], stub[o]) <=> equals(stub[o], stub[d])
          /\ notEquals(stub[d], stub[o]) <=> ~equals(stub[d], stub[o])

\* Two delegates with equal trampolines and different contexts were compared.
C6_Witness ==
    /\ lastOp.kind = "compare" /\ ~lastOp.res /\ lastOp.ne
    /\ stub[lastOp.d].second = stub[lastOp.other].second
    /\ stub[lastOp.d].first # stub[lastOp.other].first

\* C7: invoking an empty delegate is stopped by an assertion: no target is
\* called and nothing is returned.
C7_EmptyInvocationAsserts ==
    (lastOp.kind = "invoke" /\ IsEmptyHist(hist[lastOp.d])) =>
        /\ lastOp.outcome = "asserted"
        /\ lastOp.calls = <<>>
        /\ lastOp.ret = NoInt

\* C8: invoking a delegate after reset() calls no target and does not fail.
C8_InvocationAfterResetIsSafe ==
    (lastOp.kind = "invoke" /\ hist[lastOp.d].op = "reset") =>
        /\ ~crashed
        /\ lastOp.outcome # "crash"
        /\ lastOp.calls = <<>>

\* C9: empty(), == and != and invocation leave every stub as it was; connect,
\* reset, empty(), ==, != and the construction and destruction of a delegate
\* leave every instance as it was; the counter of an instance changes only in
\* an invocation of a delegate bound to a member function on that instance,
\* and an instance ceases to exist only when its owner destroys it.
C9_NonOwningAndPure ==
    [][/\ lastOp'.kind \in {"empty", "compare", "invoke"} =>
            (stub' = stub /\ alive' = alive)
       /\ lastOp'.kind \in {"connect", "reset", "empty", "compare",
                            "construct", "destroy"} =>
            (counter' = counter /\ live' = live)
       /\ live' # live => lastOp'.kind = "destroy_instance"
       /\ \A i \in Instances :
            counter'[i] # counter[i] =>
                /\ lastOp'.kind = "invoke"
                /\ hist[lastOp'.d].op = "member" /\ hist[lastOp'.d].inst = i
                /\ stub[lastOp'.d].first = i
                /\ IsMemberFunctionPointer(stub[lastOp'.d].second)]_vars

\* A delegate was destroyed while bound to an instance that is still there
\* with the count an earlier invocation gave it.
C9_Witness ==
    /\ lastOp.kind = "destroy" /\ hist[lastOp.d].op = "member"
    /\ live[hist[lastOp.d].inst] /\ counter[hist[lastOp.d].inst] > 0

\* C10: any two empty delegates compare equal.
C10_EmptyDelegatesEqual ==
    /\ \A d, o \in Delegates :
          (alive[d] /\ alive[o] /\ empty(stub[d]) /\ empty(stub[o])) =>
              equals(stub[d], stub[o])
    /\ (lastOp.kind = "compare" /\ IsEmptyHist(hist[lastOp.d])
            /\ IsEmptyHist(hist[lastOp.other])) => lastOp.res

====
